---- MODULE Spec2Model ----
(***************************************************************************)
(* Wallet ledger and payment verification of the EbusPay backends.         *)
(*                                                                         *)
(* src/server.js holds two servers.  Lines 1-209 are the gateway server    *)
(* (POST /api/initialize, POST /api/verify over the tables users,          *)
(* payments, transactions): specification Spec, and SeqSpec for one        *)
(* request at a time.  Lines 216-730 are the wallet server (the service    *)
(* purchases and POST /api/deposit over users, transactions, deposits):    *)
(* specification WalletSpec.                                               *)
(* FaultSpec, AmountSpec, WalletAmountSpec and LiveSpec are the same       *)
(* servers with rejecting storage statements, with any request amount,     *)
(* and under fair scheduling.  MongooseSpec is src/unnamed/part_001 and    *)
(* MemSpec is src/unnamed/part_000.                                        *)
(*                                                                         *)
(* A request handler runs between two awaits without interruption, and     *)
(* every await is one SQL statement or the gateway call, so one action is  *)
(* one statement together with the synchronous code that follows it.       *)
(***************************************************************************)
EXTENDS Integers, Sequences, FiniteSets

VARIABLES
    balance,        \* users.balance, by user id
    payments,       \* the payments table: rows in id order (id = index)
    transactions,   \* the transactions table: rows in id order
    deposits,       \* the deposits table of the wallet server
    pc,             \* per request slot: the statement the handler awaits
    req,            \* per request slot: req.user.id and req.body
    payment,        \* per request slot: the local `payment` of /api/verify
    vRes,           \* per request slot: the local `vRes` of /api/verify, while live
    resp,           \* per request slot: the response sent
    lastInit,       \* the response to the latest POST /api/initialize
    users           \* the users array of the in-memory variant (src/unnamed/part_000)

vars == <<balance, payments, transactions, deposits, pc, req, payment, vRes, resp,
          lastInit, users>>

(***************************************************************************)
(* Bounds of the model.                                                    *)
(***************************************************************************)
NumReq == 2         \* request slots: requests handled in one run

Procs == 1..NumReq
Users == {1, 2}
Types == {"deposit", "airtime"}
\* req.body.amount; 0 stands for a missing or zero amount
BodyAmounts == {0, 100}
\* what the gateway says was paid, in naira
PaidAmounts == {100, 500}
\* the pair (Date.now(), Math.floor(Math.random()*9000+1000)) of a reference
Stamps == {1}

\* a reference string chosen by the caller of /api/deposit
CallerRef == <<"REF", 1>>

NoReq == [op |-> "none"]
NoRow == [id |-> 0]
NoVRes == [called |-> FALSE]
NoResp == [status |-> 0]
NoInit == [status |-> 0]

\* type.toUpperCase().slice(0,4)
Prefix(type) == IF type = "deposit" THEN "DEPO" ELSE "AIRT"

\* `${type.toUpperCase().slice(0,4)}_${Date.now()}_${Math.floor(...)}`
Reference(type, stamp) == <<Prefix(type), stamp>>

AllRefs == {Reference(t, s) : t \in Types, s \in Stamps}

PAYSTACK_SECRET == TRUE

(***************************************************************************)
(* The tables.                                                             *)
(***************************************************************************)
SelectPaymentsAnyRow(reference) == payments

\* SELECT * FROM payments WHERE reference=$1
SelectPayments(reference) ==
    SelectSeq(payments, LAMBDA row : row.reference = reference)

\* reference VARCHAR(200) UNIQUE: the insert is refused when a row holds it
PaymentsUniqueViolation(reference) ==
    \E i \in 1..Len(payments) : payments[i].reference = reference

\* INSERT INTO payments (...) VALUES (...): id is the next serial
InsertPayment(user_id, type, amount, reference) ==
    Append(payments, [id |-> Len(payments) + 1, user_id |-> user_id, type |-> type,
                      amount |-> amount, reference |-> reference,
                      status |-> "pending"])

UpdatePaymentStatusNoMatch(status, id) == payments

\* UPDATE payments SET status=$1 WHERE id=$2
UpdatePaymentStatus(status, id) ==
    [i \in 1..Len(payments) |->
        IF payments[i].id = id THEN [payments[i] EXCEPT !.status = status]
        ELSE payments[i]]

\* INSERT INTO transactions (user_id,type,service_type,amount,reference)
InsertTransaction(user_id, type, amount, reference) ==
    Append(transactions, [user_id |-> user_id, type |-> type, amount |-> amount,
                          reference |-> reference])

(***************************************************************************)
(* Request slots.  A slot is one HTTP request; slots are taken in order.   *)
(***************************************************************************)
SlotFree(p) == pc[p] = "idle" /\ (IF p = 1 THEN TRUE ELSE pc[p - 1] # "idle")

InFlight(p) == pc[p] \notin {"idle", "done"}

\* res.json(...): the handler returns and its locals are gone
Respond(p, r) ==
    /\ pc' = [pc EXCEPT ![p] = "done"]
    /\ resp' = [resp EXCEPT ![p] = r]
    /\ payment' = [payment EXCEPT ![p] = NoRow]
    /\ vRes' = [vRes EXCEPT ![p] = NoVRes]

\* the handler awaits its next statement
Goto(p, label) ==
    /\ pc' = [pc EXCEPT ![p] = label]
    /\ UNCHANGED resp

(***************************************************************************)
(* POST /api/initialize                                                    *)
(***************************************************************************)
Initialize(user, type, amount, stamp) ==
    /\ IF amount = 0
       THEN /\ lastInit' = [status |-> 400, success |-> FALSE,
                             message |-> "Missing fields"]
            /\ UNCHANGED payments
       ELSE IF PaymentsUniqueViolation(Reference(type, stamp))
       THEN /\ lastInit' = [status |-> 500, success |-> FALSE,
                             message |-> "Initialization failed"]
            /\ UNCHANGED payments
       ELSE /\ payments' = InsertPayment(user, type, amount, Reference(type, stamp))
            /\ lastInit' = [status |-> 200, success |-> TRUE,
                             message |-> "initialized"]
    /\ UNCHANGED <<users, balance, transactions, deposits, pc, req, payment, vRes,
                 resp>>

(***************************************************************************)
(* POST /api/verify                                                        *)
(***************************************************************************)
AlreadyProcessedNever(row) == FALSE

\* if(payment.status === 'success')
AlreadyProcessed(row) == row.status = "success"

\* const payment = payQ.rows[0]: the handler later reads payment.id, payment.type
\* and payment.amount, and nothing else of the row
Snapshot(row) == [id |-> row.id, type |-> row.type, amount |-> row.amount]

\* lines 148-162: read the payments row, then branch on it
VerifyStart(p, user, reference) ==
    /\ SlotFree(p)
    /\ req' = [req EXCEPT ![p] = [op |-> "verify", user |-> user,
                                  reference |-> reference]]
    /\ LET payQ == SelectPayments(reference) IN
       IF Len(payQ) = 0
       THEN Respond(p, [status |-> 400, success |-> FALSE,
                        message |-> "Payment not found"])
       ELSE IF ~AlreadyProcessed(payQ[1]) /\ ~PAYSTACK_SECRET
       THEN Respond(p, [status |-> 500, success |-> FALSE,
                        message |-> "Paystack secret not configured"])
       ELSE /\ payment' = [payment EXCEPT ![p] = Snapshot(payQ[1])]
            /\ Goto(p, IF AlreadyProcessed(payQ[1]) THEN "already" ELSE "gateway")
            /\ UNCHANGED vRes
    /\ UNCHANGED <<users, lastInit, balance, payments, transactions, deposits>>

\* lines 157-158: the row was already 'success'
VerifyAlready(p) ==
    /\ pc[p] = "already"
    /\ Respond(p, [status |-> 200, success |-> TRUE, message |-> "Already verified",
                   balance |-> balance[req[p].user]])
    /\ UNCHANGED <<users, lastInit, balance, payments, transactions, deposits, req>>

\* vRes.data && vRes.data.status && vRes.data.data && vRes.data.data.status === 'success'
GatewaySuccess(v) == v.status = "success"

\* lines 164-167: the gateway answers
VerifyGateway(p, status, paid) ==
    /\ pc[p] = "gateway"
    /\ vRes' = [vRes EXCEPT ![p] = [called |-> TRUE, status |-> status, amount |-> paid]]
    /\ IF GatewaySuccess([status |-> status]) THEN Goto(p, "markSuccess")
       ELSE Goto(p, "markFailed")
    /\ UNCHANGED <<users, lastInit, balance, payments, transactions, deposits, req, payment>>

VerifyGatewayErrorMarksFailed(p) ==
    /\ pc[p] = "gateway"
    /\ payments' = UpdatePaymentStatus("failed", payment[p].id)
    /\ Respond(p, [status |-> 500, success |-> FALSE, message |-> "Verification failed"])
    /\ UNCHANGED <<users, lastInit, balance, transactions, deposits, req>>

\* lines 165, 198-201: axios.get throws (network error, timeout, non-2xx)
VerifyGatewayError(p) ==
    /\ pc[p] = "gateway"
    /\ Respond(p, [status |-> 500, success |-> FALSE, message |-> "Verification failed"])
    /\ UNCHANGED <<users, lastInit, balance, payments, transactions, deposits, req>>

\* lines 169-170
VerifyMarkFailed(p) ==
    /\ pc[p] = "markFailed"
    /\ payments' = UpdatePaymentStatus("failed", payment[p].id)
    /\ Respond(p, [status |-> 400, success |-> FALSE,
                   message |-> "Payment not successful on Paystack"])
    /\ UNCHANGED <<users, lastInit, balance, transactions, deposits, req>>

VerifyMarkSuccessThenGateway(p) ==
    /\ pc[p] = "markSuccess"
    /\ payments' = UpdatePaymentStatus("success", payment[p].id)
    /\ Goto(p, "gateway")
    /\ vRes' = [vRes EXCEPT ![p] = NoVRes]
    /\ UNCHANGED <<users, lastInit, balance, transactions, deposits, req, payment>>

VerifyMarkSuccessAlwaysCredit(p) ==
    /\ pc[p] = "markSuccess"
    /\ payments' = UpdatePaymentStatus("success", payment[p].id)
    /\ Goto(p, "credit")
    /\ vRes' = [vRes EXCEPT ![p] = NoVRes]
    /\ UNCHANGED <<users, lastInit, balance, transactions, deposits, req, payment>>

\* line 175, and the branch of line 179; vRes is not read after line 167
VerifyMarkSuccess(p) ==
    /\ pc[p] = "markSuccess"
    /\ payments' = UpdatePaymentStatus("success", payment[p].id)
    /\ IF payment[p].type = "deposit" THEN Goto(p, "credit") ELSE Goto(p, "recordTx")
    /\ vRes' = [vRes EXCEPT ![p] = NoVRes]
    /\ UNCHANGED <<users, lastInit, balance, transactions, deposits, req, payment>>

\* UPDATE users SET balance = balance + $1 WHERE id = $2, [payment.amount, req.user.id]
CreditBalance(p) ==
    [balance EXCEPT ![req[p].user] = @ + payment[p].amount]

VerifyCreditStartsOver(p) ==
    /\ pc[p] = "credit"
    /\ Goto(p, "markSuccess")
    /\ UNCHANGED <<users, lastInit, balance, payments, transactions, deposits, req, payment, vRes>>

\* line 180
VerifyCredit(p) ==
    /\ pc[p] = "credit"
    /\ balance' = CreditBalance(p)
    /\ Goto(p, "recordTx")
    /\ UNCHANGED <<users, lastInit, payments, transactions, deposits, req, payment, vRes>>

\* lines 181-182 (deposit) and 190-191 (service)
VerifyRecordTx(p) ==
    /\ pc[p] = "recordTx"
    /\ transactions' = InsertTransaction(req[p].user, payment[p].type,
                                         payment[p].amount, req[p].reference)
    /\ Goto(p, "readBalance")
    /\ UNCHANGED <<users, lastInit, balance, payments, deposits, req, payment, vRes>>

\* lines 195-196
VerifyReadBalance(p) ==
    /\ pc[p] = "readBalance"
    /\ Respond(p, [status |-> 200, success |-> TRUE, message |-> "Payment verified",
                   balance |-> balance[req[p].user]])
    /\ UNCHANGED <<users, lastInit, balance, payments, transactions, deposits, req>>

(***************************************************************************)
(* The gateway server.                                                     *)
(***************************************************************************)
Init ==
    /\ balance = [u \in Users |-> 0]
    /\ payments = <<>>
    /\ transactions = <<>>
    /\ deposits = <<>>
    /\ pc = [p \in Procs |-> "idle"]
    /\ req = [p \in Procs |-> NoReq]
    /\ payment = [p \in Procs |-> NoRow]
    /\ vRes = [p \in Procs |-> NoVRes]
    /\ resp = [p \in Procs |-> NoResp]
    /\ lastInit = NoInit
    /\ users = <<>>

VerifyStep(p) ==
    \/ VerifyAlready(p)
    \/ \E paid \in PaidAmounts : VerifyGateway(p, "success", paid)
    \/ VerifyGateway(p, "failed", 0)
    \/ VerifyGatewayError(p)
    \/ VerifyMarkFailed(p)
    \/ VerifyMarkSuccess(p)
    \/ VerifyCredit(p)
    \/ VerifyRecordTx(p)
    \/ VerifyReadBalance(p)

Next ==
    \/ \E u \in Users, t \in Types, a \in BodyAmounts, s \in Stamps :
          Initialize(u, t, a, s)
    \/ \E p \in Procs :
          \/ \E u \in Users, r \in AllRefs : VerifyStart(p, u, r)
          \/ VerifyStep(p)

Spec == Init /\ [][Next]_vars

\* No request is between its first statement and its response.
Quiescent == \A p \in Procs : ~InFlight(p)

\* The same server with one request at a time: a request starts only when
\* every earlier one has been answered.
SeqNext ==
    \/ /\ Quiescent
       /\ \E u \in Users, t \in Types, a \in BodyAmounts, s \in Stamps :
             Initialize(u, t, a, s)
    \/ \E p \in Procs :
          \/ /\ Quiescent
             /\ \E u \in Users, r \in AllRefs : VerifyStart(p, u, r)
          \/ VerifyStep(p)

SeqSpec == Init /\ [][SeqNext]_vars

(***************************************************************************)
(* Properties of the gateway server.                                       *)
(***************************************************************************)
RECURSIVE SumAmounts(_)
SumAmounts(rows) ==
    IF rows = <<>> THEN 0 ELSE Head(rows).amount + SumAmounts(Tail(rows))

RECURSIVE SumBalance(_)
SumBalance(us) ==
    IF us = {} THEN 0
    ELSE LET u == CHOOSE x \in us : TRUE IN balance[u] + SumBalance(us \ {u})

Verifies(r) == {p \in Procs : req[p].op = "verify" /\ req[p].reference = r}

\* The transactions rows written for reference r.
TxOf(r) == SelectSeq(transactions, LAMBDA row : row.reference = r)

\* Every verify request on r has been answered, and answered with success.
AllVerifiedOk(r) ==
    /\ Verifies(r) # {}
    /\ \A p \in Verifies(r) : pc[p] = "done" /\ resp[p].success

\* C1 (as claimed): once every verify on a deposit reference has been answered
\* with success, the payment is 'success', the balances have grown by exactly
\* the one intent amount, and one transaction row records it.
NoDoubleCredit ==
    \A i \in 1..Len(payments) :
        (payments[i].type = "deposit" /\ AllVerifiedOk(payments[i].reference) /\ Quiescent)
            => /\ payments[i].status = "success"
               /\ SumAmounts(TxOf(payments[i].reference)) = payments[i].amount
               /\ SumBalance(Users) = SumAmounts(SelectSeq(transactions,
                                           LAMBDA row : row.type = "deposit"))

\* The answers of a verify request that tell a terminal status of the row.
TerminalAnswer(m) ==
    m \in {"Payment verified", "Already verified", "Payment not successful on Paystack"}

SameOutcome(m1, m2) ==
    (m1 = "Payment not successful on Paystack") = (m2 = "Payment not successful on Paystack")

\* C2 (as claimed), one request at a time: after a verify on a reference was
\* answered with a terminal outcome (verified, or not successful on the
\* gateway), a later verify on that reference never gets to write the success
\* status, a credit or a transaction row, and its answer repeats the outcome.
IdempotentTerminal ==
    \A p \in Procs : \A q \in Procs :
        (/\ p < q
         /\ req[p].op = "verify" /\ req[q].op = "verify"
         /\ req[p].reference = req[q].reference
         /\ pc[p] = "done" /\ TerminalAnswer(resp[p].message))
            => /\ pc[q] \notin {"credit", "recordTx", "readBalance"}
               /\ pc[q] = "done" /\ TerminalAnswer(resp[q].message)
                     => SameOutcome(resp[p].message, resp[q].message)

\* C3 (as claimed): a request whose gateway answer is success with a paid
\* amount other than the stored amount marks the payment 'failed' with its
\* next statement and leaves every balance as it is.
AmountMismatchRejected ==
    [][\A p \in Procs :
          (/\ pc[p] = "markSuccess"
           /\ vRes[p].amount # payment[p].amount
           /\ pc'[p] # pc[p])
              => /\ payments'[payment[p].id].status = "failed"
                 /\ balance' = balance]_vars

\* No two payments rows share a reference.
PaymentsReferenceUnique ==
    \A i \in 1..Len(payments) : \A j \in 1..Len(payments) :
        payments[i].reference = payments[j].reference => i = j

\* C6 (as claimed): no two payments rows share a reference, and an initialize
\* that is refused by the unique constraint is answered with a
\* duplicate-reference error, not with the answer given to any fault.
DuplicateReferenceReported ==
    /\ PaymentsReferenceUnique
    /\ lastInit.status = 500 => lastInit.message = "Duplicate reference"

\* C8: when the gateway answers with a non-success outcome, the request goes
\* on to mark the payment 'failed', and that statement sets the row it read to
\* 'failed', changes no balance, adds no transaction row and answers with an
\* error.
GatewayFailureMarksFailed ==
    [][\A p \in Procs :
          /\ (pc[p] = "gateway" /\ vRes'[p].called /\ ~GatewaySuccess(vRes'[p]))
                => /\ pc'[p] = "markFailed"
                   /\ UNCHANGED <<balance, payments, transactions>>
          /\ (pc[p] = "markFailed" /\ pc'[p] # pc[p])
                => /\ payments'[payment[p].id].status = "failed"
                   /\ pc'[p] = "done" /\ ~resp'[p].success
                   /\ UNCHANGED <<balance, transactions>>]_vars

W_GatewayFailure ==
    \E p \in Procs :
        /\ pc[p] = "done"
        /\ resp[p].message = "Payment not successful on Paystack"
        /\ \E i \in 1..Len(payments) :
              payments[i].reference = req[p].reference /\ payments[i].status = "failed"

\* C10: a verify request whose gateway call throws is answered with the 500
\* 'Verification failed', and from its first statement to its answer it has
\* changed no payments row, no balance and no transaction row: the reference
\* is as it was, so a later verify finds what it would have found.
GatewayUnavailableChangesNothing ==
    [][\A p \in Procs :
          /\ (pc[p] = "idle" /\ pc'[p] = "gateway")
                => UNCHANGED <<balance, payments, transactions>>
          /\ (pc[p] = "gateway" /\ pc'[p] = "done")
                => /\ resp'[p] = [status |-> 500, success |-> FALSE,
                                   message |-> "Verification failed"]
                   /\ UNCHANGED <<balance, payments, transactions>>]_vars

W_GatewayUnavailable ==
    \E p \in Procs :
        /\ pc[p] = "done"
        /\ resp[p].message = "Verification failed"
        /\ \E i \in 1..Len(payments) :
              payments[i].reference = req[p].reference /\ payments[i].status = "pending"
        /\ transactions = <<>>
        /\ \A u \in Users : balance[u] = 0

NumWalletReq == 3   \* request slots of the wallet server

WProcs == 1..NumWalletReq
\* The four purchase handlers differ in their minimum and in the prefix of the
\* reference alone; requests are drawn from one without and one with a minimum.
Services == {"data", "electricity"}
\* the callers of the wallet server
WalletUsers == {1}
\* req.body.amount of the wallet server; 0 stands for a missing or zero amount
WalletAmounts == {0, 100}
\* req.body.reference of /api/deposit; NoRef stands for a missing reference
NoRef == <<"none", 0>>
DepositRefs == {CallerRef, NoRef}
\* the Date.now() (and Math.random()) digits of a generated reference
WalletStamps == {1, 2}

\* if (amount < 50), if (amount < 500), if (amount < 1000); data has no minimum
Minimum(kind) ==
    CASE kind = "airtime" -> 50
      [] kind = "data" -> 0
      [] kind = "electricity" -> 500
      [] kind = "transport" -> 1000

\* /api/services/data (lines 547-560) compares the amount with no minimum
HasMinimum(kind) == kind # "data"

MinimumMessage(kind) ==
    CASE kind = "airtime" -> "Minimum airtime is 50"
      [] kind = "data" -> "none"
      [] kind = "electricity" -> "Minimum payment is 500"
      [] kind = "transport" -> "Minimum booking is 1,000"

\* 'AIR' + Date.now() + Math.floor(Math.random() * 1000), and 'DATA', 'ELEC', 'TRN'
ServiceReference(kind, stamp) ==
    <<CASE kind = "airtime" -> "AIR"
        [] kind = "data" -> "DATA"
        [] kind = "electricity" -> "ELEC"
        [] kind = "transport" -> "TRN", stamp>>

\* reference || 'DEP' + Date.now()
DepositReference(reference, stamp) ==
    IF reference = NoRef THEN <<"DEP", stamp>> ELSE reference

\* reference VARCHAR(100) UNIQUE of transactions and of deposits
UniqueViolation(table, reference) ==
    \E i \in 1..Len(table) : table[i].reference = reference

InsufficientFlipped(bal, amount) == amount < bal

\* if (balance < amount)
Insufficient(bal, amount) == bal < amount

ServerError == [status |-> 500, success |-> FALSE, message |-> "Server error"]

\* lines 500-517, 547-560, 590-607, 638-655: validation, then the balance check
ServiceStart(p, kind, user, amount) ==
    /\ SlotFree(p)
    /\ req' = [req EXCEPT ![p] = [op |-> kind, user |-> user, amount |-> amount]]
    /\ IF amount = 0
       THEN Respond(p, [status |-> 400, success |-> FALSE,
                        message |-> "All fields are required"])
       ELSE IF HasMinimum(kind) /\ amount < Minimum(kind)
       THEN Respond(p, [status |-> 400, success |-> FALSE,
                        message |-> MinimumMessage(kind)])
       ELSE IF Insufficient(balance[user], amount)
       THEN Respond(p, [status |-> 400, success |-> FALSE,
                        message |-> "Insufficient balance"])
       ELSE /\ Goto(p, "deduct")
            /\ UNCHANGED <<payment, vRes>>
    /\ UNCHANGED <<users, lastInit, balance, payments, transactions, deposits>>

\* UPDATE users SET balance = balance - $1 WHERE id = $2 (line 520, 563, 610, 658)
ServiceDeduct(p) ==
    /\ pc[p] = "deduct"
    /\ balance' = [balance EXCEPT ![req[p].user] = @ - req[p].amount]
    /\ Goto(p, "insertTx")
    /\ UNCHANGED <<users, lastInit, payments, transactions, deposits, req, payment, vRes>>

\* lines 523-527: the generated reference and the transactions row
ServiceInsertTx(p, stamp) ==
    /\ pc[p] = "insertTx"
    /\ LET reference == ServiceReference(req[p].op, stamp) IN
       IF UniqueViolation(transactions, reference)
       THEN /\ Respond(p, ServerError)
            /\ UNCHANGED transactions
       ELSE /\ transactions' = InsertTransaction(req[p].user, req[p].op,
                                                 req[p].amount, reference)
            /\ Goto(p, "readBalance")
            /\ UNCHANGED <<payment, vRes>>
    /\ UNCHANGED <<users, lastInit, balance, payments, deposits, req>>

\* lines 530-537
ServiceReadBalance(p) ==
    /\ pc[p] = "readBalance"
    /\ req[p].op \in Services
    /\ Respond(p, [status |-> 200, success |-> TRUE, message |-> "purchase successful",
                   balance |-> balance[req[p].user]])
    /\ UNCHANGED <<users, lastInit, balance, payments, transactions, deposits, req>>

\* lines 687-694: validation, then the credit
DepositStart(p, user, amount, reference) ==
    /\ SlotFree(p)
    /\ req' = [req EXCEPT ![p] = [op |-> "deposit", user |-> user, amount |-> amount,
                                  reference |-> reference]]
    /\ IF amount = 0 \/ amount < 100
       THEN /\ Respond(p, [status |-> 400, success |-> FALSE,
                           message |-> "Minimum deposit is 100"])
            /\ UNCHANGED balance
       ELSE /\ balance' = [balance EXCEPT ![user] = @ + amount]
            /\ Goto(p, "insertDeposit")
            /\ UNCHANGED <<payment, vRes>>
    /\ UNCHANGED <<users, lastInit, payments, transactions, deposits>>

\* lines 697-700
DepositInsertDeposit(p, stamp) ==
    /\ pc[p] = "insertDeposit"
    /\ LET reference == DepositReference(req[p].reference, stamp) IN
       IF UniqueViolation(deposits, reference)
       THEN /\ Respond(p, ServerError)
            /\ UNCHANGED deposits
       ELSE /\ deposits' = Append(deposits, [user_id |-> req[p].user,
                                             amount |-> req[p].amount,
                                             reference |-> reference,
                                             status |-> "completed"])
            /\ Goto(p, "depositTx")
            /\ UNCHANGED <<payment, vRes>>
    /\ UNCHANGED <<users, lastInit, balance, payments, transactions, req>>

\* lines 703-706
DepositInsertTx(p, stamp) ==
    /\ pc[p] = "depositTx"
    /\ LET reference == DepositReference(req[p].reference, stamp) IN
       IF UniqueViolation(transactions, reference)
       THEN /\ Respond(p, ServerError)
            /\ UNCHANGED transactions
       ELSE /\ transactions' = InsertTransaction(req[p].user, "deposit",
                                                 req[p].amount, reference)
            /\ Goto(p, "depositRead")
            /\ UNCHANGED <<payment, vRes>>
    /\ UNCHANGED <<users, lastInit, balance, payments, deposits, req>>

\* lines 709-715
DepositReadBalance(p) ==
    /\ pc[p] = "depositRead"
    /\ Respond(p, [status |-> 200, success |-> TRUE, message |-> "Deposit successful",
                   balance |-> balance[req[p].user]])
    /\ UNCHANGED <<users, lastInit, balance, payments, transactions, deposits, req>>

WalletInit ==
    /\ balance = [u \in Users |-> 0]
    /\ payments = <<>>
    /\ transactions = <<>>
    /\ deposits = <<>>
    /\ pc = [p \in WProcs |-> "idle"]
    /\ req = [p \in WProcs |-> NoReq]
    /\ payment = [p \in WProcs |-> NoRow]
    /\ vRes = [p \in WProcs |-> NoVRes]
    /\ resp = [p \in WProcs |-> NoResp]
    /\ lastInit = NoInit
    /\ users = <<>>

WalletNext ==
    \E p \in WProcs :
        \/ \E k \in Services, u \in WalletUsers, a \in WalletAmounts :
              ServiceStart(p, k, u, a)
        \/ ServiceDeduct(p)
        \/ \E s \in WalletStamps : ServiceInsertTx(p, s)
        \/ ServiceReadBalance(p)
        \/ \E u \in WalletUsers, a \in WalletAmounts, r \in DepositRefs :
              DepositStart(p, u, a, r)
        \/ \E s \in WalletStamps : DepositInsertDeposit(p, s)
        \/ \E s \in WalletStamps : DepositInsertTx(p, s)
        \/ DepositReadBalance(p)

WalletSpec == WalletInit /\ [][WalletNext]_vars

(***************************************************************************)
(* Properties of the wallet server.                                        *)
(***************************************************************************)
WalletQuiescent == \A p \in WProcs : ~InFlight(p)

\* The amounts of the answered requests in ps that were answered with success.
RECURSIVE SumSucceeded(_)
SumSucceeded(ps) ==
    IF ps = {} THEN 0
    ELSE LET p == CHOOSE x \in ps : TRUE IN
         (IF pc[p] = "done" /\ resp[p].status = 200 THEN req[p].amount ELSE 0)
             + SumSucceeded(ps \ {p})

Purchases(u) == {p \in WProcs : req[p].op \in Services /\ req[p].user = u}

Deposits(u) == {p \in WProcs : req[p].op = "deposit" /\ req[p].user = u}

\* C4 (as claimed): under every interleaving of purchase requests no balance
\* is ever negative.
BalanceNeverNegative == \A u \in Users : balance[u] >= 0

\* C5 (as claimed): with no request in flight, for each user the amounts of the
\* purchases answered with success plus the balance equal the amounts of the
\* deposits answered with success.
Conservation ==
    WalletQuiescent =>
        \A u \in Users :
            SumSucceeded(Purchases(u)) + balance[u] = SumSucceeded(Deposits(u))

\* C7: a purchase request that passes validation and whose amount is greater
\* than the balance its check reads is answered 400 'Insufficient balance' by
\* that statement, and the statement changes no balance, no transactions row
\* and no deposits row.
InsufficientBalanceRejected ==
    [][\A p \in WProcs :
          (/\ pc[p] = "idle" /\ pc'[p] # "idle"
           /\ req'[p].op \in Services
           /\ req'[p].amount # 0
           /\ HasMinimum(req'[p].op) => req'[p].amount >= Minimum(req'[p].op)
           /\ req'[p].amount > balance[req'[p].user])
              => /\ pc'[p] = "done"
                 /\ resp'[p] = [status |-> 400, success |-> FALSE,
                                 message |-> "Insufficient balance"]
                 /\ UNCHANGED <<balance, transactions, deposits>>]_vars

W_InsufficientBalance ==
    \E p \in WProcs :
        /\ pc[p] = "done"
        /\ resp[p].message = "Insufficient balance"
        /\ req[p].amount > balance[req[p].user]
        /\ \E q \in WProcs : pc[q] = "done" /\ resp[q].message = "Deposit successful"

(***************************************************************************)
(* The gateway server with storage faults: a pool.query of /api/verify may *)
(* reject, which throws into the catch of line 198.  One request at a      *)
(* time.                                                                   *)
(***************************************************************************)
\* the statements of /api/verify after the first that are a pool.query
StorageStatements ==
    {"already", "markFailed", "markSuccess", "credit", "recordTx", "readBalance"}

\* lines 152, 198-201: the SELECT of the payments row rejects
VerifyStartFault(p, user, reference) ==
    /\ SlotFree(p)
    /\ req' = [req EXCEPT ![p] = [op |-> "verify", user |-> user,
                                  reference |-> reference]]
    /\ Respond(p, [status |-> 500, success |-> FALSE, message |-> "Verification failed"])
    /\ UNCHANGED <<users, lastInit, balance, payments, transactions, deposits>>

\* lines 198-201: the awaited pool.query rejects and has changed nothing
VerifyStorageFault(p) ==
    /\ pc[p] \in StorageStatements
    /\ Respond(p, [status |-> 500, success |-> FALSE, message |-> "Verification failed"])
    /\ UNCHANGED <<users, lastInit, balance, payments, transactions, deposits, req>>

FaultNext ==
    \/ SeqNext
    \/ \E p \in Procs :
          \/ /\ Quiescent
             /\ \E u \in Users, r \in AllRefs : VerifyStartFault(p, u, r)
          \/ VerifyStorageFault(p)

FaultSpec == Init /\ [][FaultNext]_vars

\* The amounts of the deposit payments that are 'success'.
CompletedDeposits ==
    SelectSeq(payments, LAMBDA row : row.type = "deposit" /\ row.status = "success")

\* C11 (as claimed): with no request in flight, the balances hold exactly the
\* amounts of the deposit payments that are marked 'success': no payment is
\* completed without its credit and no credit exists without its completed
\* payment, storage failures between the statements included.
AtomicSettle ==
    Quiescent => SumBalance(Users) = SumAmounts(CompletedDeposits)

(***************************************************************************)
(* The gateway server with any number as req.body.amount, one request at a *)
(* time.                                                                   *)
(***************************************************************************)
\* req.body.amount of /api/initialize: a negative number, zero, a positive one
AnyAmounts == {-100, 0, 100}

AmountNext ==
    \/ /\ Quiescent
       /\ \E u \in Users, t \in Types, a \in AnyAmounts, s \in Stamps :
             Initialize(u, t, a, s)
    \/ \E p \in Procs :
          \/ /\ Quiescent
             /\ \E u \in Users, r \in AllRefs : VerifyStart(p, u, r)
          \/ VerifyStep(p)

AmountSpec == Init /\ [][AmountNext]_vars

\* C12 (as claimed): after any sequence of initialize and verify requests with
\* any request-body amounts, no user's balance is below zero.
NonNegativeBalance == \A u \in DOMAIN balance : ~(balance[u] < 0)

\* C19 (as claimed): an initialize request whose amount is zero or negative
\* is rejected and creates no payment record: every payments row has a
\* positive amount.
InitializeValidatesAmount ==
    \A i \in 1..Len(payments) : payments[i].amount > 0

(***************************************************************************)
(* The mongoose variant (src/unnamed/part_001): POST /api/payments/verify. *)
(* The handler keeps no record of a payment; it reads no table.            *)
(***************************************************************************)
\* req.body.amount of /api/payments/verify, in naira
CallerAmounts == {100, 500}

\* Math.abs(paidAmount - amount) > 0.01, for whole-naira amounts
AmountMismatch(paidAmount, amount) ==
    (IF paidAmount >= amount THEN paidAmount - amount ELSE amount - paidAmount) > 0

\* lines 129-134: the body is read and the gateway is called
PaymentsVerifyStart(p, user, reference, amount) ==
    /\ SlotFree(p)
    /\ req' = [req EXCEPT ![p] = [op |-> "payments/verify", user |-> user,
                                  reference |-> reference, amount |-> amount]]
    /\ Goto(p, "axiosGet")
    /\ UNCHANGED <<users, lastInit, balance, payments, transactions, deposits, payment, vRes>>

\* line 134: the gateway answers 2xx; data.amount / 100 is the paid amount
PaymentsVerifyGateway(p, status, paid) ==
    /\ pc[p] = "axiosGet"
    /\ vRes' = [vRes EXCEPT ![p] = [called |-> TRUE, status |-> status, amount |-> paid]]
    /\ Goto(p, "compare")
    /\ UNCHANGED <<users, lastInit, balance, payments, transactions, deposits, req, payment>>

\* lines 138-142: the paid amount is compared with the amount of the body
PaymentsVerifyCompare(p) ==
    /\ pc[p] = "compare"
    /\ IF AmountMismatch(vRes[p].amount, req[p].amount)
       THEN Respond(p, [status |-> 400, success |-> FALSE, message |-> "Amount mismatch"])
       ELSE Respond(p, [status |-> 200, success |-> TRUE, message |-> "verified"])
    /\ UNCHANGED <<users, lastInit, balance, payments, transactions, deposits, req>>

\* lines 143-145: axios.get throws
PaymentsVerifyError(p) ==
    /\ pc[p] = "axiosGet"
    /\ Respond(p, [status |-> 500, success |-> FALSE,
                   message |-> "Error verifying payment"])
    /\ UNCHANGED <<users, lastInit, balance, payments, transactions, deposits, req>>

MongooseNext ==
    \E p \in Procs :
        \/ \E u \in Users, r \in AllRefs, a \in CallerAmounts :
              PaymentsVerifyStart(p, u, r, a)
        \/ \E paid \in PaidAmounts : PaymentsVerifyGateway(p, "success", paid)
        \/ \E paid \in PaidAmounts : PaymentsVerifyGateway(p, "failed", paid)
        \/ PaymentsVerifyCompare(p)
        \/ PaymentsVerifyError(p)

MongooseSpec == Init /\ [][MongooseNext]_vars

\* C13 (as claimed): the answer of a verify request to a gateway response is
\* the answer the same request would get with any other caller-supplied
\* amount: the amount field of the body decides nothing.
UntrustedCallerAmount ==
    [][\A p \in Procs :
          (pc[p] = "compare" /\ pc'[p] = "done")
              => \A a \in CallerAmounts :
                    resp'[p].success = ~AmountMismatch(vRes[p].amount, a)]_vars

(***************************************************************************)
(* Status transitions, the ledger and unknown references in the gateway    *)
(* server.                                                                 *)
(***************************************************************************)
\* C14 (as claimed): a payments row that is 'success' is 'success' after
\* every step of every request.
CompletedImmutable ==
    [][\A i \in 1..Len(payments) :
          payments[i].status = "success" => payments'[i].status = "success"]_vars

\* C15 (as claimed), one request at a time: a payments row that is 'failed'
\* stays 'failed' after every step of every later verify.
FailedTerminal ==
    [][\A i \in 1..Len(payments) :
          payments[i].status = "failed" => payments'[i].status = "failed"]_vars

\* C18 (as claimed): no two rows of the transactions table carry the same
\* reference.
LedgerReferencesUnique ==
    \A i \in 1..Len(transactions) : \A j \in 1..Len(transactions) :
        transactions[i].reference = transactions[j].reference => i = j

\* C20: a verify request for a reference that no payments row holds is
\* answered 400 'Payment not found' by its first statement: it never reaches
\* the gateway call, and balances, payments and transactions are unchanged.
UnknownReference ==
    [][\A p \in Procs :
          (/\ pc[p] = "idle" /\ pc'[p] # "idle"
           /\ req'[p].op = "verify"
           /\ \A i \in 1..Len(payments) : payments[i].reference # req'[p].reference)
              => /\ pc'[p] = "done"
                 /\ resp'[p] = [status |-> 400, success |-> FALSE,
                                 message |-> "Payment not found"]
                 /\ UNCHANGED <<balance, payments, transactions>>]_vars

W_UnknownReference ==
    \E p \in Procs :
        /\ pc[p] = "done"
        /\ req[p].op = "verify"
        /\ resp[p].message = "Payment not found"
        /\ payments # <<>>
        /\ \A i \in 1..Len(payments) : payments[i].reference # req[p].reference

(***************************************************************************)
(* Errors and the ledger in the wallet server.                             *)
(***************************************************************************)
\* The statements a wallet request awaits after it has written to users.balance.
AfterBalanceWrite ==
    {"insertTx", "readBalance", "insertDeposit", "depositTx", "depositRead"}

\* What the request in slot p has added to the balance of its user.
BalanceEffect(p) ==
    IF req[p].op = "deposit" THEN req[p].amount ELSE 0 - req[p].amount

\* C16 (as claimed): a wallet request that has written to the balance and
\* then answers with an error leaves the balance without its own change: the
\* step that answers the error takes the change back.
ErrorMeansNothingChanged ==
    [][\A p \in WProcs :
          (/\ pc[p] \in AfterBalanceWrite
           /\ pc'[p] = "done"
           /\ resp'[p].status # 200)
              => balance' = [balance EXCEPT ![req[p].user] = @ - BalanceEffect(p)]]_vars

\* The deposits less the purchases that the transactions log holds for user u.
LedgerNet(u) ==
    SumAmounts(SelectSeq(transactions,
                         LAMBDA row : row.user_id = u /\ row.type = "deposit"))
      - SumAmounts(SelectSeq(transactions,
                             LAMBDA row : row.user_id = u /\ row.type # "deposit"))

\* C17 (as claimed): with no request in flight, the balance of every user is
\* what the rows of the transactions log for that user add up to: every
\* change of a balance has its row and every row its change.
EveryChangeHasOneEntry ==
    WalletQuiescent => \A u \in WalletUsers : balance[u] = LedgerNet(u)

(***************************************************************************)
(* References on the direct deposit path of the wallet server.             *)
(***************************************************************************)
\* C21 (as claimed): a deposit request that carries a reference which a
\* deposits row already holds adds nothing to any balance.
AtMostOncePerReference ==
    [][\A p \in WProcs :
          (/\ pc[p] = "idle" /\ pc'[p] # "idle"
           /\ req'[p].op = "deposit"
           /\ req'[p].reference # NoRef
           /\ \E i \in 1..Len(deposits) : deposits[i].reference = req'[p].reference)
              => balance' = balance]_vars

\* C29 (as claimed): the transactions row a deposit request writes carries the
\* reference of a deposits row.
OneReferencePerDeposit ==
    [][\A p \in WProcs :
          (pc[p] = "depositTx" /\ pc'[p] = "depositRead")
              => \E i \in 1..Len(deposits) :
                    deposits[i].reference = transactions'[Len(transactions')].reference]_vars

(***************************************************************************)
(* Order of the statements, ownership and service payments in the gateway  *)
(* server.                                                                 *)
(***************************************************************************)
\* The statements of /api/verify that come after the gateway has answered.
AfterGateway == {"markFailed", "markSuccess", "credit", "recordTx", "readBalance"}

\* C22: a step of a verify request that is taken before the gateway has
\* answered writes to no table, the gateway answer is received at the gateway
\* call alone, and a request that is past the gateway call never goes back to
\* it.
SettleFollowsGateway ==
    [][\A p \in Procs :
          /\ (pc'[p] # pc[p] /\ pc[p] \notin AfterGateway)
                => UNCHANGED <<balance, payments, transactions>>
          /\ (vRes'[p] # vRes[p] /\ vRes'[p].called) => pc[p] = "gateway"
          /\ pc[p] \in AfterGateway => pc'[p] # "gateway"]_vars

W_SettleFollowsGateway ==
    \E p \in Procs :
        /\ pc[p] = "done"
        /\ resp[p].message = "Payment verified"
        /\ Len(TxOf(req[p].reference)) >= 1
        /\ \E i \in 1..Len(payments) :
              payments[i].reference = req[p].reference /\ payments[i].status = "success"

\* C23 (as claimed): the credit of a verify request goes to the user recorded
\* in the payments row, and the transaction row it writes names that user.
CreditGoesToOwner ==
    [][\A p \in Procs :
          /\ (pc[p] = "credit" /\ pc'[p] # pc[p])
                => balance' = [balance EXCEPT ![payments[payment[p].id].user_id] =
                                                  @ + payment[p].amount]
          /\ (pc[p] = "recordTx" /\ pc'[p] # pc[p] /\ payment[p].type = "deposit")
                => transactions'[Len(transactions')].user_id
                       = payments[payment[p].id].user_id]_vars

WalletAmountNext ==
    \E p \in WProcs :
        \/ /\ WalletQuiescent
           /\ \E k \in Services, u \in WalletUsers, a \in AnyAmounts :
                 ServiceStart(p, k, u, a)
        \/ ServiceDeduct(p)
        \/ \E s \in WalletStamps : ServiceInsertTx(p, s)
        \/ ServiceReadBalance(p)
        \/ /\ WalletQuiescent
           /\ \E u \in WalletUsers, a \in AnyAmounts, r \in DepositRefs :
                 DepositStart(p, u, a, r)
        \/ \E s \in WalletStamps : DepositInsertDeposit(p, s)
        \/ \E s \in WalletStamps : DepositInsertTx(p, s)
        \/ DepositReadBalance(p)

WalletAmountSpec == WalletInit /\ [][WalletAmountNext]_vars

\* C24 (as claimed): the balance update of a purchase request that passed
\* validation leaves the balance of its user lower than it was.
PurchaseDecreasesBalance ==
    [][\A p \in WProcs :
          (pc[p] = "deduct" /\ pc'[p] # pc[p])
              => balance'[req[p].user] < balance[req[p].user]]_vars

(***************************************************************************)
(* Progress of /api/verify: the gateway call returns or throws and every   *)
(* awaited statement of a request is eventually run.                       *)
(***************************************************************************)
\* one caller is enough for progress: no statement waits on another user
LiveUsers == {1}

LiveNext ==
    \/ \E u \in LiveUsers, t \in Types, a \in BodyAmounts, s \in Stamps :
          Initialize(u, t, a, s)
    \/ \E p \in Procs :
          \/ \E u \in LiveUsers, r \in AllRefs : VerifyStart(p, u, r)
          \/ VerifyStep(p)

LiveSpec == Init /\ [][LiveNext]_vars /\ \A p \in Procs : WF_vars(VerifyStep(p))

\* C26: every verify request that has started is eventually answered, a slot
\* gets its response in the one step that ends the request, and a payments
\* row for which the gateway has reported success to a request eventually is
\* 'success'.
VerifyMakesProgress ==
    /\ \A p \in Procs : InFlight(p) ~> (pc[p] = "done")
    /\ [][\A p \in Procs :
             resp'[p] # resp[p] => (pc[p] # "done" /\ pc'[p] = "done")]_vars
    /\ \A i \in 1..Cardinality(AllRefs) :
          (\E p \in Procs : pc[p] = "markSuccess" /\ payment[p].id = i)
              ~> (i <= Len(payments) /\ payments[i].status = "success")

W_VerifyMakesProgress ==
    \E p \in Procs :
        /\ pc[p] = "done"
        /\ resp[p].status = 200
        /\ resp[p].message = "Payment verified"
        /\ \E q \in Procs : q # p /\ pc[q] = "done" /\ resp[q].status = 500
        /\ \E i \in 1..Len(payments) :
              payments[i].reference = req[p].reference /\ payments[i].status = "success"

(***************************************************************************)
(* The in-memory variant (src/unnamed/part_000): signup, deposit and the   *)
(* transaction history over the arrays users and transactions.  Only       *)
(* signup has an await; the other two handlers run in one piece.           *)
(***************************************************************************)
NumMemReq == 4      \* request slots of the in-memory variant

MemProcs == 1..NumMemReq
Emails == {"a@x.ng", "b@x.ng"}
\* Date.now() when a user is pushed: the id of the user
MemStamps == {1, 2}
MemAmounts == {100}

\* users.find(u=>u.email===email)
EmailExists(email) == \E i \in 1..Len(users) : users[i].email = email

\* users.find(u=>u.id===req.user.id): the index of the first match, 0 for undefined
FindUser(id) ==
    IF \E i \in 1..Len(users) : users[i].id = id
    THEN CHOOSE i \in 1..Len(users) :
            users[i].id = id /\ \A j \in 1..(i - 1) : users[j].id # id
    ELSE 0

\* Date.now() does not go back: the ids pushed so far are not above the next
LaterStamp(stamp) == \A i \in 1..Len(users) : users[i].id <= stamp

\* transactions.filter(t=>t.userId===req.user.id)
UserTx(id) == SelectSeq(transactions, LAMBDA t : t.userId = id)

\* lines 60-62: the check of the email, then the await of bcrypt.hash
SignupStart(p, email) ==
    /\ SlotFree(p)
    /\ req' = [req EXCEPT ![p] = [op |-> "signup", email |-> email]]
    /\ IF EmailExists(email)
       THEN Respond(p, [status |-> 400, success |-> FALSE, message |-> "Email exists"])
       ELSE /\ Goto(p, "hash")
            /\ UNCHANGED <<payment, vRes>>
    /\ UNCHANGED <<users, lastInit, balance, payments, transactions, deposits>>

\* lines 63-65: the hash is there, the user is pushed
SignupPush(p, stamp) ==
    /\ pc[p] = "hash"
    /\ LaterStamp(stamp)
    /\ users' = Append(users, [id |-> stamp, email |-> req[p].email, balance |-> 0])
    /\ Respond(p, [status |-> 200, success |-> TRUE, message |-> "Signup successful"])
    /\ UNCHANGED <<lastInit, balance, payments, transactions, deposits, req>>

\* lines 92-99; the date of a row is its place in the order of creation
MemDeposit(p, id, amount, reference) ==
    /\ SlotFree(p)
    /\ req' = [req EXCEPT ![p] = [op |-> "deposit", user |-> id, amount |-> amount,
                                  reference |-> reference]]
    /\ IF FindUser(id) = 0
       THEN /\ Respond(p, [status |-> 404, success |-> FALSE,
                           message |-> "User not found"])
            /\ UNCHANGED <<users, transactions>>
       ELSE /\ users' = [users EXCEPT ![FindUser(id)].balance = @ + amount]
            /\ transactions' = Append(transactions,
                                      [userId |-> id, type |-> "Deposit",
                                       amount |-> amount,
                                       date |-> Len(transactions) + 1,
                                       reference |-> reference])
            /\ Respond(p, [status |-> 200, success |-> TRUE, message |-> "none"])
    /\ UNCHANGED <<lastInit, balance, payments, deposits>>

\* lines 87-90
ListTransactions(p, id) ==
    /\ SlotFree(p)
    /\ req' = [req EXCEPT ![p] = [op |-> "transactions", user |-> id]]
    /\ Respond(p, [status |-> 200, success |-> TRUE, message |-> "none",
                   transactions |-> UserTx(id)])
    /\ UNCHANGED <<users, lastInit, balance, payments, transactions, deposits>>

MemInit ==
    /\ balance = [u \in Users |-> 0]
    /\ payments = <<>>
    /\ transactions = <<>>
    /\ deposits = <<>>
    /\ pc = [p \in MemProcs |-> "idle"]
    /\ req = [p \in MemProcs |-> NoReq]
    /\ payment = [p \in MemProcs |-> NoRow]
    /\ vRes = [p \in MemProcs |-> NoVRes]
    /\ resp = [p \in MemProcs |-> NoResp]
    /\ lastInit = NoInit
    /\ users = <<>>

MemNext ==
    \E p \in MemProcs :
        \/ \E e \in Emails : SignupStart(p, e)
        \/ \E s \in MemStamps : SignupPush(p, s)
        \/ \E id \in MemStamps, a \in MemAmounts : MemDeposit(p, id, a, CallerRef)
        \/ \E id \in MemStamps : ListTransactions(p, id)

MemSpec == MemInit /\ [][MemNext]_vars

\* LIMIT 50 of GET /api/transactions
HistoryLimit == 50

\* C27 (as claimed): the transactions of a history response all belong to the
\* requesting user, come newest first, and are at most 50.
TransactionHistory ==
    \A p \in MemProcs :
        (pc[p] = "done" /\ req[p].op = "transactions")
            => LET list == resp[p].transactions IN
               /\ \A i \in 1..Len(list) : list[i].userId = req[p].user
               /\ \A i \in 1..Len(list) : \A j \in 1..Len(list) :
                     i < j => list[i].date >= list[j].date
               /\ Len(list) <= HistoryLimit

\* C28 (as claimed): the users array never holds two users with the same
\* email.
SignupUniqueness ==
    \A i \in 1..Len(users) : \A j \in 1..Len(users) :
        users[i].email = users[j].email => i = j

====
